---- MODULE Spec2Model ----
(***************************************************************************)
(* A model of coco_voc_converter.py: the command line driver main, the     *)
(* converters voc2coco and coco2voc, and the reader load_voc_annotation,   *)
(* running against a small file system.                                    *)
(*                                                                         *)
(* Text that the program splits, parses with int() or formats with str()  *)
(* is a sequence of one-character strings (<<"6","4","0">>); text that is  *)
(* only copied and compared (label, pose) is a TLA+ string.  A Python dict *)
(* and an XML element are records whose DOMAIN is the set of keys present, *)
(* so a missing key or child element is a missing field.                   *)
(***************************************************************************)
EXTENDS Integers, Sequences, FiniteSets, TLC

VARIABLES
    args,       \* the parsed command line: voc2coco, coco2voc, src, dst
    fs,         \* the file system: path name -> node
    now,        \* what datetime.now().strftime(...) returns in this run
    pc,         \* the position of the run
    err,        \* the exception that ended the run, "none" while there is none
    dst_dir,    \* coco2voc's local dst_dir
    coco_ann,   \* the aggregate record (built by voc2coco, loaded by coco2voc)
    voc_ann,    \* voc2coco's voc_ann (all_ann of the reader)
    label_set,  \* voc2coco's label_set
    i,          \* coco2voc: the number of images already processed
    run,        \* 1 for the first invocation, 2 for the one that converts back
    fs0,        \* history: the file system before the first invocation
    touched,    \* history: some os / open call was made in this invocation
    parsed,     \* history: ET.parse or json.load was called in this invocation
    pool,       \* history: the input positions of the annotations still in coco_ann
    emitted,    \* history: <<image position, annotation input position>> per object node written
    written     \* history: the names of the files written by this invocation, in order

vars == <<args, fs, now, pc, err, dst_dir, coco_ann, voc_ann, label_set, i, run,
          fs0, touched, parsed, pool, emitted, written>>

-----------------------------------------------------------------------------
(* Bounds of the model *)

MaxImages == 2      \* descriptor files in a source directory, images in an aggregate record
MaxAnns == 2        \* regions in a whole dataset

-----------------------------------------------------------------------------
(* Text: int(), str(), str.split('.')[0] *)

Digits == <<"0", "1", "2", "3", "4", "5", "6", "7", "8", "9">>

DigitSet == {Digits[k] : k \in 1..10}

DigitVal(c) == (CHOOSE k \in 1..10 : Digits[k] = c) - 1

Front(s) == SubSeq(s, 1, Len(s) - 1)

Unsigned(t) == IF Len(t) > 0 /\ t[1] = "-" THEN Tail(t) ELSE t

\* int(t) does not raise ValueError
IsIntText(t) ==
    /\ Len(Unsigned(t)) > 0
    /\ \A k \in 1..Len(Unsigned(t)) : Unsigned(t)[k] \in DigitSet

RECURSIVE NatOf(_)
NatOf(d) == IF d = <<>> THEN 0 ELSE NatOf(Front(d)) * 10 + DigitVal(d[Len(d)])

\* int(t)
IntOf(t) == IF Len(t) > 0 /\ t[1] = "-" THEN 0 - NatOf(Tail(t)) ELSE NatOf(t)

RECURSIVE NatStr(_)
NatStr(n) == IF n < 10 THEN <<Digits[n + 1]>> ELSE NatStr(n \div 10) \o <<Digits[(n % 10) + 1]>>

\* str(n) of an int
Str(n) == IF n < 0 THEN <<"-">> \o NatStr(0 - n) ELSE NatStr(n)

\* float(n): the double of value n (exact for |n| <= 2^53), a JSON number of another type
Float(n) == [float |-> n]

RECURSIVE SplitFirst(_)
\* t.split('.')[0]
SplitFirst(t) ==
    IF t = <<>> \/ t[1] = "." THEN <<>> ELSE <<t[1]>> \o SplitFirst(Tail(t))

XmlExt == <<".", "x", "m", "l">>

\* filename.split('.')[0] + '.xml'
XmlName(filename) == SplitFirst(filename) \o XmlExt

\* f'voc2coco_{now_time}.json'
SaveFile(now_time) ==
    <<"v", "o", "c", "2", "c", "o", "c", "o", "_">> \o now_time \o <<".", "j", "s", "o", "n">>

-----------------------------------------------------------------------------
(* The file system.  A node is absent, a file with its data, or a directory *)
(* with its entries in os.listdir order; a path is <<name>> or <<dir, file>>. *)

Paths == {"p", "q", "r"}

Absent == [kind |-> "absent"]

File(data) == [kind |-> "file", data |-> data]

Dir(entries) == [kind |-> "dir", entries |-> entries]

XmlData(doc) == [fmt |-> "xml", doc |-> doc]

JsonData(val) == [fmt |-> "json", val |-> val]

EntryIndex(entries, name) ==
    IF \E k \in 1..Len(entries) : entries[k].name = name
    THEN CHOOSE k \in 1..Len(entries) : entries[k].name = name
    ELSE 0

Lookup(f, path) ==
    IF Len(path) = 1 THEN f[path[1]]
    ELSE IF f[path[1]].kind = "dir" /\ EntryIndex(f[path[1]].entries, path[2]) # 0
         THEN File(f[path[1]].entries[EntryIndex(f[path[1]].entries, path[2])].data)
         ELSE Absent

\* os.path.exists
Exists(f, path) == Lookup(f, path).kind # "absent"

\* os.path.isdir
IsDir(f, path) == Lookup(f, path).kind = "dir"

\* os.path.isfile
IsFile(f, path) == Lookup(f, path).kind = "file"

\* os.mkdir of a path <<name>>
MkDir(f, path) == [f EXCEPT ![path[1]] = Dir(<<>>)]

\* open(os.path.join(dir, name), 'w') and a write of data: the file is replaced
\* when the directory has one of that name and is added to it otherwise
WriteFile(f, dir, name, data) ==
    LET es == f[dir[1]].entries
        k == EntryIndex(es, name)
    IN [f EXCEPT ![dir[1]] =
            Dir(IF k = 0 THEN Append(es, [name |-> name, data |-> data])
                ELSE [es EXCEPT ![k] = [name |-> name, data |-> data]])]

-----------------------------------------------------------------------------
(* Exceptions *)

\* Python's None (JSON null)
None == "None"

RECURSIVE FirstErr(_)
\* the first exception raised by a sequence of steps, "none" when none raises
FirstErr(errs) ==
    IF errs = <<>> THEN "none"
    ELSE IF Head(errs) # "none" THEN Head(errs) ELSE FirstErr(Tail(errs))

\* el.find(key).text
TextErr(el, key) == IF key \in DOMAIN el THEN "none" ELSE "AttributeError"

\* int(el.find(key).text)
IntErr(el, key) ==
    IF key \notin DOMAIN el THEN "AttributeError"
    ELSE IF IsIntText(el[key]) THEN "none" ELSE "ValueError"

\* int(el.find(outer).find(key).text)
IntErr2(el, outer, key) ==
    IF outer \notin DOMAIN el THEN "AttributeError" ELSE IntErr(el[outer], key)

\* d[key] for each key of keys in turn
KeyErr(d, keys) ==
    FirstErr([k \in 1..Len(keys) |-> IF keys[k] \in DOMAIN d THEN "none" ELSE "KeyError"])

-----------------------------------------------------------------------------
(* load_voc_annotation *)

\* the body of the loop over root.iter('object'), as far as it can raise
ObjErr(obj) ==
    FirstErr(<<TextErr(obj, "name"), TextErr(obj, "pose"),
               IntErr(obj, "truncated"), IntErr(obj, "difficult"),
               IntErr2(obj, "bndbox", "xmin"), IntErr2(obj, "bndbox", "ymin"),
               IntErr2(obj, "bndbox", "xmax"), IntErr2(obj, "bndbox", "ymax")>>)

\* the body of the loop over ann_files, as far as it can raise
DocErr(data) ==
    IF data.fmt # "xml" THEN "ParseError"
    ELSE FirstErr(<<TextErr(data.doc, "filename"),
                    IntErr2(data.doc, "size", "width"),
                    IntErr2(data.doc, "size", "height"),
                    IntErr2(data.doc, "size", "depth")>>
                  \o [k \in 1..Len(data.doc.objects) |-> ObjErr(data.doc.objects[k])])

\* the dict appended to ann['ann'] for one object element
ParseObj(obj) ==
    [label |-> obj.name,
     pose |-> obj.pose,
     truncated |-> IntOf(obj.truncated),
     difficult |-> IntOf(obj.difficult),
     bbox |-> <<IntOf(obj.bndbox.xmin), IntOf(obj.bndbox.ymin),
                IntOf(obj.bndbox.xmax), IntOf(obj.bndbox.ymax)>>]

\* the dict ann appended to all_ann for one descriptor file
ParseDoc(doc) ==
    [image_info |-> [filename |-> doc.filename,
                     width |-> IntOf(doc.size.width),
                     height |-> IntOf(doc.size.height),
                     depth |-> IntOf(doc.size.depth)],
     ann |-> [k \in 1..Len(doc.objects) |-> ParseObj(doc.objects[k])]]

Range(s) == {s[k] : k \in 1..Len(s)}

\* (mutant) the label appended whether it is in label_set or not
AddLabelAlways(labels, label_name) == Append(labels, label_name)

\* if label_name not in label_set: label_set.append(label_name)
AddLabel(labels, label_name) ==
    IF label_name \in Range(labels) THEN labels ELSE Append(labels, label_name)

RECURSIVE AddLabels(_, _)
\* label_set after the objects of one file
AddLabels(labels, objects) ==
    IF objects = <<>> THEN labels
    ELSE AddLabels(AddLabel(labels, Head(objects).name), Tail(objects))

RECURSIVE LoadFrom(_, _, _)
\* the loop over ann_files: [err, all_ann, label_set]
LoadFrom(entries, all_ann, labels) ==
    IF entries = <<>> THEN [err |-> "none", all_ann |-> all_ann, label_set |-> labels]
    ELSE IF DocErr(Head(entries).data) # "none"
         THEN [err |-> DocErr(Head(entries).data), all_ann |-> all_ann, label_set |-> labels]
         ELSE LoadFrom(Tail(entries),
                       Append(all_ann, ParseDoc(Head(entries).data.doc)),
                       AddLabels(labels, Head(entries).data.doc.objects))

\* load_voc_annotation(voc_ann_dir), the directory's node given
LoadVocAnnotation(node) == LoadFrom(node.entries, <<>>, <<>>)

-----------------------------------------------------------------------------
(* voc2coco: building the aggregate record *)

\* coco_ann['categories'] after the loop over enumerate(label_set)
Categories(labels) ==
    [k \in 1..Len(labels) |-> [supercategory |-> None, id |-> k, name |-> labels[k]]]

\* category_id after the loop over coco_ann['categories']: the id of the first
\* category of that name; with none of that name the variable keeps its value
\* (0 stands for a variable not yet bound)
CategoryId(label, cats, category_id) ==
    IF \E k \in 1..Len(cats) : cats[k].name = label
    THEN cats[CHOOSE k \in 1..Len(cats) :
                /\ cats[k].name = label
                /\ \A j \in 1..(k - 1) : cats[j].name # label].id
    ELSE category_id

\* (mutant) the corner form copied as it is
BBoxCorner(b) == b

\* bbox = [xmin, ymin, width, height]
BBoxOf(b) == <<b[1], b[2], b[3] - b[1], b[4] - b[2]>>

\* area = float(width * height)
AreaOf(b) == Float((b[3] - b[1]) * (b[4] - b[2]))

\* the dict appended to coco_ann['annotations']
Annotation(ann_detail, image_id, annotation_id, category_id) ==
    [id |-> annotation_id,
     image_id |-> image_id,
     name |-> ann_detail.label,
     category_id |-> category_id,
     bbox |-> BBoxOf(ann_detail.bbox),
     area |-> AreaOf(ann_detail.bbox),
     segmentation |-> None,
     iscrowd |-> 0,
     pose |-> ann_detail.pose,
     truncated |-> ann_detail.truncated,
     difficult |-> ann_detail.difficult]

RECURSIVE ImageAnns(_, _, _, _, _)
\* the loop over ann['ann'] for the image at position image_id
ImageAnns(details, image_id, annotation_id, category_id, cats) ==
    IF details = <<>> THEN <<>>
    ELSE LET cid == CategoryId(Head(details).label, cats, category_id)
         IN <<Annotation(Head(details), image_id, annotation_id, cid)>>
            \o ImageAnns(Tail(details), image_id, annotation_id + 1, cid, cats)

RECURSIVE AllAnnsReset(_, _, _, _, _)
\* (mutant) annotation_id = 0 inside the loop over the images
AllAnnsReset(voc, image_id, annotation_id, category_id, cats) ==
    IF voc = <<>> THEN <<>>
    ELSE LET here == ImageAnns(Head(voc).ann, image_id, 0, category_id, cats)
         IN here \o AllAnnsReset(Tail(voc), image_id + 1, 0,
                                 IF here = <<>> THEN category_id
                                 ELSE here[Len(here)].category_id,
                                 cats)

RECURSIVE AllAnns(_, _, _, _, _)
\* the loop over enumerate(voc_ann), from the image at position image_id on
AllAnns(voc, image_id, annotation_id, category_id, cats) ==
    IF voc = <<>> THEN <<>>
    ELSE LET here == ImageAnns(Head(voc).ann, image_id, annotation_id, category_id, cats)
         IN here \o AllAnns(Tail(voc), image_id + 1, annotation_id + Len(here),
                            IF here = <<>> THEN category_id
                            ELSE here[Len(here)].category_id,
                            cats)

\* coco_ann['images']
Images(voc) ==
    [k \in 1..Len(voc) |->
        [file_name |-> voc[k].image_info.filename,
         width |-> voc[k].image_info.width,
         height |-> voc[k].image_info.height,
         depth |-> voc[k].image_info.depth,
         id |-> k - 1]]

\* coco_ann as voc2coco has it before it is written
BuildCoco(voc, labels) ==
    [images |-> Images(voc),
     annotations |-> AllAnns(voc, 0, 0, 0, Categories(labels)),
     categories |-> Categories(labels)]

\* reading category_id while it is unbound
BuildErr(coco) ==
    IF \E k \in 1..Len(coco.annotations) : coco.annotations[k].category_id = 0
    THEN "UnboundLocalError" ELSE "none"

-----------------------------------------------------------------------------
(* coco2voc: one image *)

ImageKeys == <<"file_name", "width", "height", "depth", "id">>

ObjectKeys == <<"name", "pose", "truncated", "difficult", "bbox">>

\* the body of the loop over coco_ann['annotations'], as far as it can raise
AnnErr(ann, img_id) ==
    IF "image_id" \notin DOMAIN ann THEN "KeyError"
    ELSE IF ann.image_id # img_id THEN "none"
    ELSE KeyErr(ann, ObjectKeys)

\* the body of the loop over coco_ann['images'], as far as it can raise
ImageErr(img, anns) ==
    IF KeyErr(img, ImageKeys) # "none" THEN KeyErr(img, ImageKeys)
    ELSE FirstErr([k \in 1..Len(anns) |-> AnnErr(anns[k], img.id)])

\* the positions of the annotations with ann['image_id'] == img_id
Matching(anns, img_id) == {k \in 1..Len(anns) : anns[k].image_id = img_id}

RECURSIVE Pick(_, _, _)
\* the elements of s at the positions in ks, from position k on, in order
Pick(s, ks, k) ==
    IF k > Len(s) THEN <<>>
    ELSE (IF k \in ks THEN <<s[k]>> ELSE <<>>) \o Pick(s, ks, k + 1)

\* del_list
DelList(anns, img_id) == Pick(anns, Matching(anns, img_id), 1)

\* the object element appended to root for one annotation
ObjectNode(ann) ==
    [type |-> "bndbox",
     name |-> ann.name,
     pose |-> ann.pose,
     truncated |-> Str(ann.truncated),
     difficult |-> Str(ann.difficult),
     bndbox |-> [xmin |-> Str(ann.bbox[1]),
                 ymin |-> Str(ann.bbox[2]),
                 xmax |-> Str(ann.bbox[1] + ann.bbox[3]),
                 ymax |-> Str(ann.bbox[2] + ann.bbox[4])]]

\* the document written for img
Document(img, anns) ==
    [filename |-> img.file_name,
     size |-> [width |-> Str(img.width),
               height |-> Str(img.height),
               depth |-> Str(img.depth)],
     objects |-> [k \in 1..Len(DelList(anns, img.id)) |->
                    ObjectNode(DelList(anns, img.id)[k])]]

\* the position list.remove(x) deletes: that of the first element equal to x
FirstEqual(s, x) == CHOOSE k \in 1..Len(s) : s[k] = x /\ \A j \in 1..(k - 1) : s[j] # x

RemoveAt(s, k) == SubSeq(s, 1, k - 1) \o SubSeq(s, k + 1, Len(s))

RECURSIVE RemoveAll(_, _, _)
\* the loop over del_list, applied to the annotations and, position by
\* position, to the sequence that records their input positions
RemoveAll(anns, positions, del_list) ==
    IF del_list = <<>> THEN [anns |-> anns, positions |-> positions]
    ELSE RemoveAll(RemoveAt(anns, FirstEqual(anns, Head(del_list))),
                   RemoveAt(positions, FirstEqual(anns, Head(del_list))),
                   Tail(del_list))

-----------------------------------------------------------------------------
(* The inputs of the model *)

SeqsUpTo(S, n) == UNION {[1..k -> S] : k \in 0..n}

FnA == <<"a", ".", "j", "p", "g">>

FnB == <<"b", ".", "j", "p", "g">>

FnA1 == <<"a", ".", "1", ".", "j", "p", "g">>

FnC == <<"c", ".", "j", "p", "g">>

\* the clock readings: one, so that an earlier output of the same second exists
Times == {<<"2", "0", "2", "1", "0", "3", "0", "1", "1", "2", "0", "0", "0", "0">>}

\* the filename and size elements of a descriptor file; the last has no size element
VocMetas ==
    {[filename |-> FnA, size |-> [width |-> <<"6", "4">>, height |-> <<"0", "4", "8">>, depth |-> <<"3">>]],
     [filename |-> FnA1, size |-> [width |-> <<"1", "0">>, height |-> <<"8">>, depth |-> <<"1">>]],
     [filename |-> FnB, size |-> [width |-> <<"6", "4">>, height |-> <<"4", "8">>, depth |-> <<"3">>]],
     [filename |-> FnC]}

\* the object elements of a descriptor file; the last has a bndbox that int() rejects
VocObjects ==
    {[name |-> "cat", pose |-> "Left", truncated |-> <<"0">>, difficult |-> <<"0">>,
      bndbox |-> [xmin |-> <<"1", "0">>, ymin |-> <<"1", "0">>, xmax |-> <<"5", "0">>, ymax |-> <<"6", "0">>]],
     [name |-> "dog", pose |-> "Unspecified", truncated |-> <<"1">>, difficult |-> <<"0">>,
      bndbox |-> [xmin |-> <<"0">>, ymin |-> <<"0">>, xmax |-> <<"3", "0">>, ymax |-> <<"2", "0">>]],
     [name |-> "cat", pose |-> "Left", truncated |-> <<"0">>, difficult |-> <<"1">>,
      bndbox |-> [xmin |-> <<"-", "4">>, ymin |-> <<"0", "7">>, xmax |-> <<"2">>, ymax |-> <<"9">>]],
     [name |-> "dog", pose |-> "Left", truncated |-> <<"0">>, difficult |-> <<"0">>,
      bndbox |-> [xmin |-> <<"x">>, ymin |-> <<"0">>, xmax |-> <<"2">>, ymax |-> <<"9">>]]}

\* the descriptor documents with at most a objects
VocDocs(a) == {m @@ [objects |-> o] : m \in VocMetas, o \in SeqsUpTo(VocObjects, a)}

RECURSIVE DocLists(_, _, _)
\* the sequences of n documents with at most a objects in all, the descriptors of
\* distinct image files, none of them named in used
DocLists(n, a, used) ==
    IF n = 0 THEN {<<>>}
    ELSE UNION {{<<d>> \o rest :
                    rest \in DocLists(n - 1, a - Len(d.objects), used \cup {d.filename})} :
                d \in {x \in VocDocs(a) : x.filename \notin used}}

\* a directory listing of descriptor files 1.xml, 2.xml, ...
Listing(docs) == [k \in 1..Len(docs) |-> [name |-> Str(k) \o XmlExt, data |-> XmlData(docs[k])]]

VocDirs == {Dir(Listing(docs)) : docs \in UNION {DocLists(n, MaxAnns, {}) : n \in 0..MaxImages}}

\* the image dicts of an aggregate file: ids collide, the last has no depth
CocoImages ==
    {[file_name |-> FnA, width |-> 64, height |-> 48, depth |-> 3, id |-> 5],
     [file_name |-> FnB, width |-> 64, height |-> 48, depth |-> 3, id |-> 5],
     [file_name |-> FnA1, width |-> 10, height |-> 8, depth |-> 1, id |-> 0],
     [file_name |-> FnB, width |-> 10, height |-> 8, id |-> 0]}

\* the annotation dicts of an aggregate file: one names no image, the last has no bbox
CocoAnns ==
    {[image_id |-> 5, name |-> "dog", pose |-> "Left", truncated |-> 0, difficult |-> 0, bbox |-> <<0, 0, 30, 20>>],
     [image_id |-> 0, name |-> "dog", pose |-> "Left", truncated |-> 0, difficult |-> 0, bbox |-> <<0, 0, 30, 20>>],
     [image_id |-> 5, name |-> "cat", pose |-> "Unspecified", truncated |-> 1, difficult |-> 0, bbox |-> <<10, 10, 40, 50>>],
     [image_id |-> 7, name |-> "dog", pose |-> "Left", truncated |-> 0, difficult |-> 0, bbox |-> <<0, 0, 30, 20>>],
     [image_id |-> 5, name |-> "cat", pose |-> "Left", truncated |-> 0, difficult |-> 0]}

CocoFiles ==
    {File(JsonData([images |-> im, annotations |-> an, categories |-> <<>>])) :
        im \in SeqsUpTo(CocoImages, MaxImages), an \in SeqsUpTo(CocoAnns, MaxAnns)}

EmptyCoco == [images |-> <<>>, annotations |-> <<>>, categories |-> <<>>]

\* an output left by an earlier voc2coco run of the same second
OldOutput(t) == Dir(<<[name |-> SaveFile(t), data |-> JsonData(EmptyCoco)]>>)

\* a descriptor left by an earlier coco2voc run
OldDescriptor ==
    Dir(<<[name |-> XmlName(FnA),
           data |-> XmlData([filename |-> FnA,
                             size |-> [width |-> <<"1">>, height |-> <<"1">>, depth |-> <<"1">>],
                             objects |-> <<>>])]>>)

\* the nodes of the runs that are about the kinds of src and dst
PlainNodes ==
    {Absent, Dir(<<>>), OldDescriptor,
     File(JsonData(EmptyCoco)), File(XmlData([objects |-> <<>>]))}

Flags == [voc2coco : BOOLEAN, coco2voc : BOOLEAN]

\* any flags, any src and dst, nodes of any kind
InitKinds ==
    /\ \E fl \in Flags, s \in Paths, d \in Paths :
          args = [voc2coco |-> fl.voc2coco, coco2voc |-> fl.coco2voc, src |-> <<s>>, dst |-> <<d>>]
    /\ \E np \in PlainNodes, nq \in PlainNodes \cup {OldOutput(now)} :
          fs = [x \in Paths |-> IF x = "p" THEN np ELSE IF x = "q" THEN nq ELSE Absent]

\* voc2coco from a directory of descriptor files, into that directory or into
\* another, which holds an earlier output
InitVoc ==
    /\ \E d \in {"p", "q"} :
          args = [voc2coco |-> TRUE, coco2voc |-> FALSE, src |-> <<"p">>, dst |-> <<d>>]
    /\ \E np \in VocDirs :
          fs = [x \in Paths |-> IF x = "p" THEN np ELSE IF x = "q" THEN OldOutput(now) ELSE Absent]

\* coco2voc from an aggregate file, into a directory that exists or not
InitCoco ==
    /\ args = [voc2coco |-> FALSE, coco2voc |-> TRUE, src |-> <<"p">>, dst |-> <<"q">>]
    /\ \E np \in CocoFiles, nq \in {Absent, OldDescriptor} :
          fs = [x \in Paths |-> IF x = "p" THEN np ELSE IF x = "q" THEN nq ELSE Absent]

InitLocals ==
    /\ pc = "main"
    /\ err = "none"
    /\ dst_dir = <<>>
    /\ coco_ann = EmptyCoco
    /\ voc_ann = <<>>
    /\ label_set = <<>>
    /\ i = 0
    /\ run = 1
    /\ fs0 = fs
    /\ touched = FALSE
    /\ parsed = FALSE
    /\ pool = <<>>
    /\ emitted = <<>>
    /\ written = <<>>

Init ==
    /\ now \in Times
    /\ (InitKinds \/ InitVoc \/ InitCoco)
    /\ InitLocals

-----------------------------------------------------------------------------
(* The steps of a run *)

\* an exception leaves the program
Raise(e) == pc' = "failed" /\ err' = e

\* main, up to the call of a converter
Main ==
    /\ pc = "main"
    /\ IF args.voc2coco /\ args.coco2voc THEN Raise("AssertionError")
       ELSE /\ pc' = IF args.voc2coco THEN "v2c_src"
                     ELSE IF args.coco2voc THEN "c2v_exists" ELSE "done"
            /\ err' = err
    /\ UNCHANGED <<args, fs, now, dst_dir, coco_ann, voc_ann, label_set, i, run,
                   fs0, touched, parsed, pool, emitted, written>>

\* voc2coco: if not os.path.isdir(src)
V2C_CheckSrc ==
    /\ pc = "v2c_src"
    /\ touched' = TRUE
    /\ IF ~IsDir(fs, args.src) THEN Raise("NotADirectoryError")
       ELSE pc' = "v2c_dst" /\ err' = err
    /\ UNCHANGED <<args, fs, now, dst_dir, coco_ann, voc_ann, label_set, i, run,
                   fs0, parsed, pool, emitted, written>>

\* (mutant) the destination created when it does not exist, as coco2voc does
V2C_CheckDstCreates ==
    /\ pc = "v2c_dst"
    /\ fs' = IF ~Exists(fs, args.dst) THEN MkDir(fs, args.dst) ELSE fs
    /\ IF ~IsDir(fs', args.dst) THEN Raise("NotADirectoryError")
       ELSE pc' = "v2c_load" /\ err' = err
    /\ UNCHANGED <<args, now, dst_dir, coco_ann, voc_ann, label_set, i, run,
                   fs0, touched, parsed, pool, emitted, written>>

\* voc2coco: if not os.path.isdir(dst)
V2C_CheckDst ==
    /\ pc = "v2c_dst"
    /\ IF ~IsDir(fs, args.dst) THEN Raise("NotADirectoryError")
       ELSE pc' = "v2c_load" /\ err' = err
    /\ UNCHANGED <<args, fs, now, dst_dir, coco_ann, voc_ann, label_set, i, run,
                   fs0, touched, parsed, pool, emitted, written>>

\* voc2coco: voc_ann, label_set = load_voc_annotation(src)
V2C_Load ==
    /\ pc = "v2c_load"
    /\ LET r == LoadVocAnnotation(Lookup(fs, args.src))
       IN /\ parsed' = (Lookup(fs, args.src).entries # <<>>)
          /\ IF r.err # "none"
             THEN Raise(r.err) /\ UNCHANGED <<voc_ann, label_set>>
             ELSE /\ voc_ann' = r.all_ann
                  /\ label_set' = r.label_set
                  /\ pc' = "v2c_build"
                  /\ err' = err
    /\ UNCHANGED <<args, fs, now, dst_dir, coco_ann, i, run,
                   fs0, touched, pool, emitted, written>>

\* voc2coco: the categories, images and annotations of coco_ann
V2C_Build ==
    /\ pc = "v2c_build"
    /\ IF BuildErr(BuildCoco(voc_ann, label_set)) # "none"
       THEN Raise(BuildErr(BuildCoco(voc_ann, label_set))) /\ UNCHANGED coco_ann
       ELSE /\ coco_ann' = BuildCoco(voc_ann, label_set)
            /\ pc' = "v2c_write"
            /\ err' = err
    /\ UNCHANGED <<args, fs, now, dst_dir, voc_ann, label_set, i, run,
                   fs0, touched, parsed, pool, emitted, written>>

\* (mutant) the output written into the source directory
V2C_TargetSrc == args.src

\* the directory voc2coco writes its output into
V2C_Target == args.dst

\* voc2coco: json.dump(coco_ann, f) into dst/voc2coco_<now>.json, and the return to main
V2C_Write ==
    /\ pc = "v2c_write"
    /\ fs' = WriteFile(fs, V2C_Target, SaveFile(now), JsonData(coco_ann))
    /\ written' = Append(written, SaveFile(now))
    /\ pc' = "done"
    /\ UNCHANGED <<args, now, err, dst_dir, coco_ann, voc_ann, label_set, i, run,
                   fs0, touched, parsed, pool, emitted>>

\* coco2voc: if not os.path.exists(dst): os.mkdir(...) else: dst_dir = dst
C2V_MkDir ==
    /\ pc = "c2v_exists"
    /\ touched' = TRUE
    /\ fs' = IF ~Exists(fs, args.dst) THEN MkDir(fs, args.dst) ELSE fs
    /\ dst_dir' = args.dst
    /\ pc' = "c2v_src"
    /\ UNCHANGED <<args, now, err, coco_ann, voc_ann, label_set, i, run,
                   fs0, parsed, pool, emitted, written>>

\* coco2voc: if not os.path.isfile(src)
C2V_CheckSrc ==
    /\ pc = "c2v_src"
    /\ IF ~IsFile(fs, args.src) THEN Raise("FileNotFoundError")
       ELSE pc' = "c2v_dst" /\ err' = err
    /\ UNCHANGED <<args, fs, now, dst_dir, coco_ann, voc_ann, label_set, i, run,
                   fs0, touched, parsed, pool, emitted, written>>

\* (mutant) the kind of the destination not checked
C2V_CheckDstSkipped ==
    /\ pc = "c2v_dst"
    /\ pc' = "c2v_load"
    /\ UNCHANGED <<args, fs, now, err, dst_dir, coco_ann, voc_ann, label_set, i, run,
                   fs0, touched, parsed, pool, emitted, written>>

\* coco2voc: if not os.path.isdir(dst_dir)
C2V_CheckDst ==
    /\ pc = "c2v_dst"
    /\ IF ~IsDir(fs, dst_dir) THEN Raise("NotADirectoryError")
       ELSE pc' = "c2v_load" /\ err' = err
    /\ UNCHANGED <<args, fs, now, dst_dir, coco_ann, voc_ann, label_set, i, run,
                   fs0, touched, parsed, pool, emitted, written>>

\* coco2voc: coco_ann = json.load(f), and the evaluation of coco_ann['images']
C2V_Load ==
    /\ pc = "c2v_load"
    /\ parsed' = TRUE
    /\ LET data == Lookup(fs, args.src).data
       IN IF data.fmt # "json"
          THEN Raise("JSONDecodeError") /\ UNCHANGED <<coco_ann, pool>>
          ELSE IF "images" \notin DOMAIN data.val
          THEN Raise("KeyError") /\ UNCHANGED <<coco_ann, pool>>
          ELSE /\ coco_ann' = data.val
               /\ pool' = [k \in 1..Len(data.val.annotations) |-> k]
               /\ pc' = "c2v_loop"
               /\ err' = err
    /\ i' = 0
    /\ UNCHANGED <<args, fs, now, dst_dir, voc_ann, label_set, run,
                   fs0, touched, emitted, written>>

\* (mutant) the matched annotations left in the pool
ConsumeNothing(anns, positions, img_id) == [anns |-> anns, positions |-> positions]

\* coco_ann['annotations'] and the input positions after the loop over del_list
Consume(anns, positions, img_id) == RemoveAll(anns, positions, DelList(anns, img_id))

\* coco2voc: one pass of the loop over coco_ann['images']
C2V_Image ==
    /\ pc = "c2v_loop"
    /\ i < Len(coco_ann.images)
    /\ LET img == coco_ann.images[i + 1]
           anns == coco_ann.annotations
       IN IF ImageErr(img, anns) # "none"
          THEN /\ Raise(ImageErr(img, anns))
               /\ UNCHANGED <<fs, coco_ann, i, pool, emitted, written>>
          ELSE /\ fs' = WriteFile(fs, dst_dir, XmlName(img.file_name),
                                  XmlData(Document(img, anns)))
               /\ coco_ann' = [coco_ann EXCEPT
                                 !.annotations = Consume(anns, pool, img.id).anns]
               /\ pool' = Consume(anns, pool, img.id).positions
               /\ emitted' = emitted \o
                     [k \in 1..Cardinality(Matching(anns, img.id)) |->
                        <<i + 1, Pick(pool, Matching(anns, img.id), 1)[k]>>]
               /\ written' = Append(written, XmlName(img.file_name))
               /\ i' = i + 1
               /\ pc' = pc
               /\ err' = err
    /\ UNCHANGED <<args, now, dst_dir, voc_ann, label_set, run, fs0, touched, parsed>>

\* coco2voc: the loop over coco_ann['images'] is over, and the return to main
C2V_Return ==
    /\ pc = "c2v_loop"
    /\ i = Len(coco_ann.images)
    /\ pc' = "done"
    /\ UNCHANGED <<args, fs, now, err, dst_dir, coco_ann, voc_ann, label_set, i, run,
                   fs0, touched, parsed, pool, emitted, written>>

Next ==
    \/ Main
    \/ V2C_CheckSrc
    \/ V2C_CheckDst
    \/ V2C_Load
    \/ V2C_Build
    \/ V2C_Write
    \/ C2V_MkDir
    \/ C2V_CheckSrc
    \/ C2V_CheckDst
    \/ C2V_Load
    \/ C2V_Image
    \/ C2V_Return

Spec == Init /\ [][Next]_vars

-----------------------------------------------------------------------------
(* The round trip: voc2coco, then coco2voc on the file it wrote, into the *)
(* fresh directory r.                                                      *)

Reinvoke ==
    /\ pc = "done"
    /\ run = 1
    /\ args.voc2coco
    /\ args' = [voc2coco |-> FALSE, coco2voc |-> TRUE,
                src |-> <<args.dst[1], SaveFile(now)>>, dst |-> <<"r">>]
    /\ run' = 2
    /\ pc' = "main"
    /\ touched' = FALSE
    /\ parsed' = FALSE
    /\ written' = <<>>
    /\ coco_ann' = EmptyCoco
    /\ UNCHANGED <<fs, now, err, dst_dir, voc_ann, label_set, i, fs0, pool, emitted>>

InitRT == now \in Times /\ InitVoc /\ InitLocals

NextRT == Next \/ Reinvoke

SpecRT == InitRT /\ [][NextRT]_vars

-----------------------------------------------------------------------------
(* What the properties are stated with *)

Terminal == pc \in {"done", "failed"}

OnlyVoc == run = 1 /\ args.voc2coco /\ ~args.coco2voc

OnlyCoco == run = 1 /\ args.coco2voc /\ ~args.voc2coco

\* voc2coco has built coco_ann
Built == OnlyVoc /\ pc \in {"v2c_write", "done"}

\* the entries of the source directory as they were before the run
SrcEntries == fs0[args.src[1]].entries

RECURSIVE FlatFrom(_, _)
\* the object elements of the descriptor files from the k-th on, files in listing
\* order and objects in document order, each with the position of its file
FlatFrom(entries, k) ==
    IF k > Len(entries) THEN <<>>
    ELSE [j \in 1..Len(entries[k].data.doc.objects) |->
            [file |-> k, obj |-> entries[k].data.doc.objects[j]]]
         \o FlatFrom(entries, k + 1)

FlatObjects == FlatFrom(SrcEntries, 1)

FlatLabels == [k \in 1..Len(FlatObjects) |-> FlatObjects[k].obj.name]

FirstPos(s, x) == CHOOSE k \in 1..Len(s) : s[k] = x /\ \A j \in 1..(k - 1) : s[j] # x

\* the aggregate record coco2voc was given
SrcCoco == Lookup(fs0, args.src).data.val

RECURSIVE LastDot(_)
\* the position of the last "." of t, 0 when it has none
LastDot(t) ==
    IF t = <<>> THEN 0
    ELSE IF t[Len(t)] = "." THEN Len(t) ELSE LastDot(Front(t))

\* t with its extension replaced by .xml
ReplaceExt(t) == (IF LastDot(t) = 0 THEN t ELSE SubSeq(t, 1, LastDot(t) - 1)) \o XmlExt

\* the entries of the destination directory now
DstEntries == fs[args.dst[1]].entries

-----------------------------------------------------------------------------
(* C1: a dataset converted by voc2coco and back by coco2voc has, for each   *)
(* input descriptor, a descriptor in the result that reads back as the same *)
(* image metadata and the same regions.                                     *)
C1_RoundTrip ==
    (run = 2 /\ pc = "done") =>
        \A k \in 1..Len(fs0["p"].entries) :
            \E e \in 1..Len(DstEntries) :
                /\ DocErr(DstEntries[e].data) = "none"
                /\ ParseDoc(DstEntries[e].data.doc) = ParseDoc(fs0["p"].entries[k].data.doc)

(* C2: with both direction flags or with neither, main fails with a usage  *)
(* error and no file system call is ever made.                             *)
C2_UsageError ==
    (run = 1 /\ args.voc2coco = args.coco2voc) =>
        /\ ~touched
        /\ fs = fs0
        /\ Terminal => (pc = "failed" /\ err = "AssertionError")

(* C3: the category ids are 1..N, N the number of distinct labels of the   *)
(* input, in the order the labels first occur; each annotation's            *)
(* category_id is the id of the one category of its name.                   *)
C3_CategoryIds ==
    Built =>
        LET cats == coco_ann.categories
            anns == coco_ann.annotations
        IN /\ Len(cats) = Cardinality(Range(FlatLabels))
           /\ {cats[k].name : k \in 1..Len(cats)} = Range(FlatLabels)
           /\ \A k \in 1..Len(cats) : cats[k].id = k
           /\ \A j, k \in 1..Len(cats) :
                 j < k => FirstPos(FlatLabels, cats[j].name) < FirstPos(FlatLabels, cats[k].name)
           /\ \A a \in 1..Len(anns) :
                 \E k \in 1..Len(cats) :
                    cats[k].name = anns[a].name /\ anns[a].category_id = cats[k].id

C3_Witness ==
    /\ OnlyVoc /\ pc = "done"
    /\ Len(coco_ann.categories) = 2
    /\ coco_ann.categories[1].name = "dog"
    /\ coco_ann.annotations[2].category_id = 2

(* C4: the annotation ids are 0..M-1 in discovery order, not reset between *)
(* images, and each image_id is the 0-based position of the annotation's   *)
(* image.                                                                   *)
C4_AnnotationIds ==
    Built =>
        LET anns == coco_ann.annotations
        IN /\ Len(anns) = Len(FlatObjects)
           /\ \A k \in 1..Len(anns) :
                 /\ anns[k].id = k - 1
                 /\ anns[k].image_id = FlatObjects[k].file - 1
                 /\ anns[k].name = FlatObjects[k].obj.name
           /\ \A j \in 1..Len(coco_ann.images) : coco_ann.images[j].id = j - 1

C4_Witness ==
    /\ OnlyVoc /\ pc = "done"
    /\ Len(coco_ann.annotations) = 2
    /\ coco_ann.annotations[1].image_id = 0
    /\ coco_ann.annotations[2].image_id = 1
    /\ coco_ann.annotations[2].id = 1

(* C5: after a successful coco2voc run the destination holds one descriptor *)
(* per image, written by this run, named as the image's file name with its *)
(* extension replaced by .xml and describing that image.                    *)
C5_OneFilePerImage ==
    (OnlyCoco /\ pc = "done") =>
        /\ Cardinality(Range(written)) = Len(SrcCoco.images)
        /\ \A j \in 1..Len(SrcCoco.images) :
              \E e \in 1..Len(DstEntries) :
                 /\ DstEntries[e].name = ReplaceExt(SrcCoco.images[j].file_name)
                 /\ DstEntries[e].name \in Range(written)
                 /\ DstEntries[e].data.doc.filename = SrcCoco.images[j].file_name
                 /\ DstEntries[e].data.doc.size.width = Str(SrcCoco.images[j].width)

\* the kinds src and dst had before the run
SrcKind == Lookup(fs0, args.src).kind

DstKind == Lookup(fs0, args.dst).kind

(* C6 as claimed: a source or destination of the wrong kind makes the      *)
(* converter fail with a directory-kind error before any input is parsed.   *)
C6_DirectoryKindError ==
    (\/ OnlyVoc /\ (SrcKind # "dir" \/ DstKind # "dir")
     \/ OnlyCoco /\ (SrcKind # "file" \/ DstKind # "dir")) =>
        /\ ~parsed
        /\ Terminal => (pc = "failed" /\ err = "NotADirectoryError")

(* C6 as amended: voc2coco with a source or destination that is no          *)
(* directory fails with NotADirectoryError; coco2voc with a source that is  *)
(* no file fails with FileNotFoundError, and with a file as source and a    *)
(* destination that exists and is no directory with NotADirectoryError (a   *)
(* destination that does not exist is created); each before any parsing.    *)
C6_KindErrors ==
    /\ (OnlyVoc /\ (SrcKind # "dir" \/ DstKind # "dir")) =>
          /\ ~parsed
          /\ Terminal => (pc = "failed" /\ err = "NotADirectoryError")
    /\ (OnlyCoco /\ SrcKind # "file") =>
          /\ ~parsed
          /\ Terminal => (pc = "failed" /\ err = "FileNotFoundError")
    /\ (OnlyCoco /\ SrcKind = "file" /\ DstKind = "file") =>
          /\ ~parsed
          /\ Terminal => (pc = "failed" /\ err = "NotADirectoryError")

C6_Witness ==
    /\ OnlyCoco /\ pc = "failed"
    /\ SrcKind = "dir"
    /\ err = "FileNotFoundError"

Others(d, name) == {d.entries[k] : k \in {j \in 1..Len(d.entries) : d.entries[j].name # name}}

(* C8 as claimed: a successful voc2coco run writes one output file and      *)
(* leaves the source directory as it was.                                   *)
C8_SourceUntouched ==
    (OnlyVoc /\ pc = "done") =>
        /\ Len(written) = 1
        /\ fs[args.src[1]] = fs0[args.src[1]]

(* C8 as amended: a successful voc2coco run writes one output file, into    *)
(* the destination directory, and changes nothing else; the source          *)
(* directory is as it was when the destination is another directory, and    *)
(* has the output file added to it when it is the destination itself.       *)
C8_OneOutputFile ==
    (OnlyVoc /\ pc = "done") =>
        /\ written = <<SaveFile(now)>>
        /\ \A x \in Paths \ {args.dst[1]} : fs[x] = fs0[x]
        /\ Others(fs[args.dst[1]], SaveFile(now)) = Others(fs0[args.dst[1]], SaveFile(now))
        /\ Lookup(fs, args.dst \o <<SaveFile(now)>>) = File(JsonData(coco_ann))
        /\ args.src # args.dst => fs[args.src[1]] = fs0[args.src[1]]
        /\ args.src = args.dst => fs[args.src[1]] # fs0[args.src[1]]

C8_Witness ==
    /\ OnlyVoc /\ pc = "done"
    /\ args.src # args.dst
    /\ Len(SrcEntries) = 2
    /\ Len(coco_ann.annotations) > 0

\* the number of positions of s that hold x
Count(s, x) == Cardinality({k \in 1..Len(s) : s[k] = x})

\* the object elements of the descriptors this run wrote, as many times as they occur
RECURSIVE NodesFrom(_, _)
NodesFrom(entries, k) ==
    IF k > Len(entries) THEN <<>>
    ELSE (IF entries[k].name \in Range(written) THEN entries[k].data.doc.objects ELSE <<>>)
         \o NodesFrom(entries, k + 1)

(* C9: in coco2voc each annotation is written as an object node at most     *)
(* once, for the first image whose id is its image_id; it leaves the pool   *)
(* when that image has been processed, and an annotation whose image_id is  *)
(* no image's id is written nowhere.                                        *)
C9_EmittedOnce ==
    (OnlyCoco /\ parsed /\ Lookup(fs0, args.src).data.fmt = "json") =>
        LET imgs == SrcCoco.images
            anns0 == SrcCoco.annotations
            whole == {a \in 1..Len(anns0) : KeyErr(anns0[a], ObjectKeys) = "none"}
        IN /\ \A e1, e2 \in 1..Len(emitted) : e1 # e2 => emitted[e1][2] # emitted[e2][2]
           /\ \A e \in 1..Len(emitted) :
                 /\ imgs[emitted[e][1]].id = anns0[emitted[e][2]].image_id
                 /\ \A j \in 1..(emitted[e][1] - 1) : imgs[j].id # anns0[emitted[e][2]].image_id
           /\ \A k \in 1..Len(pool) :
                 /\ coco_ann.annotations[k] = anns0[pool[k]]
                 /\ \A j \in 1..i : imgs[j].id # anns0[pool[k]].image_id
           /\ \A a \in 1..Len(anns0) :
                 (\A j \in 1..i : imgs[j].id # anns0[a].image_id) => a \in Range(pool)
           /\ \A a \in whole :
                 Count(NodesFrom(DstEntries, 1), ObjectNode(anns0[a]))
                    <= Cardinality({b \in whole : ObjectNode(anns0[b]) = ObjectNode(anns0[a])})

C9_Witness ==
    /\ OnlyCoco /\ pc = "done"
    /\ Len(SrcCoco.images) = 2
    /\ SrcCoco.images[1].id = SrcCoco.images[2].id
    /\ Len(emitted) = 2
    /\ Len(pool) = 0

(* C10 as claimed: a run that ends in an error leaves the file system as it *)
(* was before the run.                                                      *)
C10_NoPartialResult ==
    (run = 1 /\ pc = "failed") => fs = fs0

(* C10 as amended: a voc2coco run that ends in an error, and a run main     *)
(* refuses, leave the file system as it was; a coco2voc run that ends in an *)
(* error changes nothing outside its destination, where it may have created *)
(* the directory and written the descriptors of the images before the       *)
(* failing one.                                                             *)
C10_FailedRunEffects ==
    (run = 1 /\ pc = "failed") =>
        /\ args.voc2coco => fs = fs0
        /\ \A x \in Paths \ {args.dst[1]} : fs[x] = fs0[x]
        /\ Len(written) = i
        /\ fs # fs0 =>
              /\ fs[args.dst[1]].kind = "dir"
              /\ fs0[args.dst[1]].kind \in {"absent", "dir"}
              /\ \A k \in 1..Len(DstEntries) :
                    \/ DstEntries[k].name \in Range(written)
                    \/ /\ fs0[args.dst[1]].kind = "dir"
                       /\ DstEntries[k] \in Range(fs0[args.dst[1]].entries)

C10_Witness ==
    /\ OnlyVoc /\ pc = "failed"
    /\ parsed
    /\ err = "ValueError"
    /\ fs0[args.dst[1]].kind = "dir"

====
